---- MODULE Spec2Model ----
(***************************************************************************)
(* The marker scanner of mjpg-tools: jpgtrace.c and mjpg_index.c.          *)
(*                                                                         *)
(* Both programs are one main() that walks a JPEG / raw M-JPEG byte stream *)
(* with getc and fseeko.  The model follows main() of each program step by *)
(* step; pc is the position in main(), one value per place where main()    *)
(* reads from the input file.                                              *)
(*                                                                         *)
(* The input file is modelled by what the program has seen of it: stream   *)
(* holds the bytes read so far (a byte the program has only sought over is *)
(* Skipped), and every getc at a position not yet seen draws the byte, the *)
(* end of the file or an I/O fault.  The file is at most MaxLen bytes.     *)
(***************************************************************************)
EXTENDS Integers, Sequences, FiniteSets, TLC

(* ---- bounds of the model ---- *)

\* Longest input file, in bytes.
MaxLen == 8

\* LONG_MAX, the limit of the frame counter, scaled down.
LongMax == 3

(* ---- constants of the source ---- *)

JPEG_PREMARK == 255
JPEG_TEM == 1
JPEG_RST_MIN == 208
JPEG_RST_MAX == 215
JPEG_SOI == 216
JPEG_EOI == 217
JPEG_SOS == 218
JPEG_DNL == 220
JPEG_APP_MIN == 224
JPEG_APP_MAX == 239

\* What getc returns at the end of the file and on an I/O fault.
EOF == -1

\* A position of the file that exists but that the program sought over.
Skipped == -2

\* The byte values input files are made of: 00, TEM (also the length byte
\* 01), the length bytes 02 and 03, RST0, SOI, EOI, SOS, DNL and FF.
Byte == {0, 1, 2, 3, 208, 216, 217, 218, 220, 255}

\* The two programs.
Programs == {"jpgtrace", "mjpg_index"}

VARIABLES
  prog,         \* which program runs
  stream,       \* the input file as far as it was read (1-based sequence)
  pos,          \* file position of fp (0-based offset of the next byte)
  feof,         \* end-of-file indicator of fp
  read_count,   \* mjpg_index: int64_t read_count
  c,            \* int c
  c2,           \* int c2
  status,       \* int status
  eoi_read,     \* int eoi_read
  mark_len,     \* long mark_len
  frame_count,  \* long frame_count
  fi,           \* mjpg_index: bytes of the index file
  fi_pos,       \* mjpg_index: file position of fi
  out,          \* jpgtrace: lines printed to standard output
  diag,         \* the line printed to stderr, "" if none
  pc,           \* position in main()
  unit_start,   \* history: pos at which the current top-level unit began
  mark_end,     \* history: pos right after the marker byte of that unit
  back,         \* history: <<V, offset>> of the scan-data backtrack that
                \* led to the current top-level unit, else <<>>
  units         \* history: the top-level marker units read so far

vars == <<prog, stream, pos, feof, read_count, c, c2, status, eoi_read,
          mark_len, frame_count, fi, fi_pos, out, diag, pc, unit_start, mark_end,
          back, units>>

(* ---- marker classifier ---- *)

\* The range check without the value 0.
ArgInRangeNonZero(v) == (v >= 1) /\ (v <= 254)

\* The parameter check of jpeg_isStandAlone, jpeg_isImmediate and
\* reportMarker: outside 0..0xfe the function calls abort().
ArgInRange(v) == ~((v < 0) \/ (v > 254))

\* The stand-alone test without TEM.
jpeg_isStandAloneNoTem(v) ==
  ((v >= JPEG_RST_MIN) /\ (v <= JPEG_RST_MAX))
    \/ (v = JPEG_SOI) \/ (v = JPEG_EOI)

jpeg_isStandAlone(v) ==
  (v = JPEG_TEM) \/ ((v >= JPEG_RST_MIN) /\ (v <= JPEG_RST_MAX))
    \/ (v = JPEG_SOI) \/ (v = JPEG_EOI)

\* The immediate test without the restart markers.
jpeg_isImmediateNoRst(v) == (v = JPEG_DNL)

jpeg_isImmediate(v) ==
  (v = JPEG_DNL) \/ ((v >= JPEG_RST_MIN) /\ (v <= JPEG_RST_MAX))

\* The stand-alone test of jpgtrace.c with the restart range ending below
\* JPEG_RST_MAX.
jpgtrace_jpeg_isStandAloneShortRst(v) ==
  (v = JPEG_TEM) \/ ((v >= JPEG_RST_MIN) /\ (v < JPEG_RST_MAX))
    \/ (v = JPEG_SOI) \/ (v = JPEG_EOI)

\* The stand-alone test of jpgtrace.c without TEM.
jpgtrace_jpeg_isStandAloneNoTem(v) ==
  ((v >= JPEG_RST_MIN) /\ (v <= JPEG_RST_MAX))
    \/ (v = JPEG_SOI) \/ (v = JPEG_EOI)

\* jpeg_isStandAlone of jpgtrace.c.
jpgtrace_jpeg_isStandAlone(v) ==
  (v = JPEG_TEM) \/ ((v >= JPEG_RST_MIN) /\ (v <= JPEG_RST_MAX))
    \/ (v = JPEG_SOI) \/ (v = JPEG_EOI)

\* The immediate test of jpgtrace.c without DNL.
jpgtrace_jpeg_isImmediateNoDnl(v) ==
  ((v >= JPEG_RST_MIN) /\ (v <= JPEG_RST_MAX))

\* jpeg_isImmediate of jpgtrace.c.
jpgtrace_jpeg_isImmediate(v) ==
  (v = JPEG_DNL) \/ ((v >= JPEG_RST_MIN) /\ (v <= JPEG_RST_MAX))

\* The classifier of program p.
isStandAloneOf(p, v) ==
  IF p = "jpgtrace" THEN jpgtrace_jpeg_isStandAlone(v) ELSE jpeg_isStandAlone(v)

isImmediateOf(p, v) ==
  IF p = "jpgtrace" THEN jpgtrace_jpeg_isImmediate(v) ELSE jpeg_isImmediate(v)

(* ---- the input file: getc and fseeko ---- *)

\* The bytes getc can return at position p of file s: the byte already read
\* there, or any byte when the position was not read before and lies within
\* the longest file.
Avail(s, p) ==
  IF p < Len(s) /\ s[p + 1] # Skipped THEN {s[p + 1]}
  ELSE IF p < MaxLen THEN Byte
  ELSE {}

\* File s with byte b recorded at position p; positions in between that
\* were sought over are Skipped.
Reveal(s, p, b) ==
  [k \in 1..(IF p + 1 > Len(s) THEN p + 1 ELSE Len(s)) |->
     IF k = p + 1 THEN b
     ELSE IF k <= Len(s) THEN s[k]
     ELSE Skipped]

\* getc that never returns EOF: at the end of the file there is no
\* outcome, the read does not return.
GetcNoEof(s, p) ==
  { [ch |-> b, stream |-> Reveal(s, p, b), pos |-> p + 1, feof |-> FALSE] :
      b \in Avail(s, p) }

\* The outcomes of getc(fp) at position p: a byte (the position advances),
\* EOF with feof set (only at or past the end of what is known to exist),
\* or EOF with feof clear (an I/O fault).
Getc(s, p) ==
  { [ch |-> b, stream |-> Reveal(s, p, b), pos |-> p + 1, feof |-> FALSE] :
      b \in Avail(s, p) }
  \cup (IF p >= Len(s)
          THEN {[ch |-> EOF, stream |-> s, pos |-> p, feof |-> TRUE]}
          ELSE {})
  \cup {[ch |-> EOF, stream |-> s, pos |-> p, feof |-> FALSE]}

\* fseeko(fp, off, SEEK_CUR) when it succeeds.
SeekCur(p, off) == p + off

\* A backtrack of one byte only.
BacktrackOffOne == 0 - 1

\* The offset of the scan-data backtrack: fseeko(fp, -2, SEEK_CUR).
BacktrackOff == 0 - 2

\* The backtrack without its adjustment of read_count.
CountBackNone(rc) == rc

\* read_count after the backtrack: read_count -= 2.
CountBack(rc) == rc - 2

(* ---- jpgtrace: the lines of standard output ---- *)

\* printf("\n") on its own: an empty line.
BlankLine == [kind |-> "", name |-> "", num |-> 0]

\* The SOF(n) markers reportMarker names: 0xC0..0xCF without DHT (0xC4),
\* 0xC8 and DAC (0xCC).
SofMarkers == (192..207) \ {196, 200, 204}

\* The name reportMarker prints for marker byte v, as <<text, number>>;
\* "0x" is the hexadecimal form of the default case.
MarkerName(v) ==
  CASE v = JPEG_TEM -> <<"TEM", 0>>
    [] v \in SofMarkers -> <<"SOF", v - 192>>
    [] v = 196 -> <<"DHT", 0>>
    [] v = 204 -> <<"DAC", 0>>
    [] v = 219 -> <<"DQT", 0>>
    [] v = 221 -> <<"DRI", 0>>
    [] v = 222 -> <<"DHP", 0>>
    [] v = 223 -> <<"EXP", 0>>
    [] v = 254 -> <<"COM", 0>>
    [] v = JPEG_SOI -> <<"SOI", 0>>
    [] v = JPEG_EOI -> <<"EOI", 0>>
    [] v = JPEG_SOS -> <<"SOS", 0>>
    [] v = JPEG_DNL -> <<"DNL", 0>>
    [] (v >= JPEG_APP_MIN) /\ (v <= JPEG_APP_MAX) -> <<"APP", v - JPEG_APP_MIN>>
    [] (v >= JPEG_RST_MIN) /\ (v <= JPEG_RST_MAX) -> <<"RST", v - JPEG_RST_MIN>>
    [] OTHER -> <<"0x", v>>

\* reportMarker without the test of immed: every line says "Marker".
reportMarkerNoImmed(v, immed) ==
  <<[kind |-> "Marker", name |-> MarkerName(v)[1], num |-> MarkerName(v)[2]]>>
  \o (IF MarkerName(v)[1] = "0x" THEN <<BlankLine>> ELSE <<>>)

\* reportMarker printing only immediates: a marker at top level gives
\* no line.
reportMarkerImmedOnly(v, immed) ==
  IF immed THEN <<[kind |-> "Immediate", name |-> MarkerName(v)[1],
                   num |-> MarkerName(v)[2]]>>
                \o (IF MarkerName(v)[1] = "0x" THEN <<BlankLine>> ELSE <<>>)
           ELSE <<>>

\* The lines reportMarker(v, immed) prints: the marker line, and for a
\* value without a name the "\n" of the default case's format ends that
\* line, so that the closing printf("\n") prints an empty line after it.
reportMarker(v, immed) ==
  <<[kind |-> IF immed THEN "Immediate" ELSE "Marker",
     name |-> MarkerName(v)[1], num |-> MarkerName(v)[2]]>>
  \o (IF MarkerName(v)[1] = "0x" THEN <<BlankLine>> ELSE <<>>)

\* The statistics jpgtrace prints after a successful scan.
ReportStatistics(fc) ==
  <<BlankLine,
    IF fc < LongMax
      THEN [kind |-> "Number of images", name |-> "", num |-> fc]
      ELSE [kind |-> "Number of images", name |-> "(overflow!)", num |-> 0]>>

(* ---- mjpg_index: the index file ---- *)

\* (val >> i) & 0xff for a value of the model, which is below 2^31.
ByteAt(val, i) == IF i >= 31 THEN 0 ELSE (val \div (2 ^ i)) % 256

\* putc of the bytes bs into file f at position p: the file and the
\* position afterwards.
Putc(f, p, bs) ==
  [bytes |-> [k \in 1..(IF p + Len(bs) > Len(f) THEN p + Len(bs) ELSE Len(f)) |->
                IF k > p /\ k <= p + Len(bs) THEN bs[k - p] ELSE f[k]],
   pos |-> p + Len(bs)]

\* The byte loop ending at i > 0: the least significant byte is not
\* written.
writeInt64BESeven(f, p, val) ==
  Putc(f, p, [k \in 1..7 |-> ByteAt(val, 56 - 8 * (k - 1))])

\* writeInt64BE: the bytes of val for i = 56, 48, ..., 0, most significant
\* first, written into file f at position p.
writeInt64BE(f, p, val) ==
  Putc(f, p, [k \in 1..8 |-> ByteAt(val, 56 - 8 * (k - 1))])

\* rewind(fi).
Rewind == 0

\* The k-th 64-bit big-endian integer of file f (k = 1 is the count), read
\* back byte by byte.
RECURSIVE BigEndian(_, _, _)
BigEndian(f, from, n) ==
  IF n = 0 THEN 0 ELSE BigEndian(f, from, n - 1) * 256 + f[from + n]

Int64At(f, k) == BigEndian(f, 8 * (k - 1), 8)

\* The number of complete offset entries after the count.
NumEntries(f) == IF Len(f) < 8 THEN 0 ELSE (Len(f) \div 8) - 1

\* The offset of the marker byte instead of the 0xff before it.
FrameOffsetOne(rc) == rc - 1

\* The offset mjpg_index records for an SOI, from the read counter.
FrameOffset(rc) == rc - 2

(* ---- pieces of main() ---- *)

\* mark_len after the two length bytes: (hi << 8) | lo.
LengthField(hi, lo) == (hi * 256) + lo

\* The check of the length field against one.
LengthTooSmallOne(ml) == ml < 1

\* The check of the length field.
LengthTooSmall(ml) == ml < 2

\* The payload length without the subtraction of the two length bytes.
PayloadLenWhole(ml) == ml

\* The payload length: the length field without its own two bytes.
PayloadLen(ml) == ml - 2

\* The test of the marker written as an assignment (c = JPEG_EOI): it is
\* true for every marker.
EoiFlagAlways(v) == 1

\* The end of a loop iteration: eoi_read is set if the marker was EOI.
EoiFlag(v) == IF v = JPEG_EOI THEN 1 ELSE 0

\* The check for no frames comparing against zero.
NoFramesBelowZero(fc) == fc < 0

\* The check after the loop of mjpg_index: no frame was found.
NoFrames(fc) == fc < 1

\* No escape test: the zero byte is handled like any other marker.
IsEscapeNever(v) == FALSE

\* The zero "marker" in scan data: the escape of a 0xff data byte.
IsEscape(v) == ~(v # 0)

\* Every byte passes for the pre-marker byte.
MissingPremarkNever(v) == FALSE

\* The check of the first byte of a marker unit: it must be 0xff.
MissingPremark(v) == v # JPEG_PREMARK

\* No check of the frame counter before the increment.
CounterFullNever(fc) == FALSE

\* mjpg_index: the frame counter cannot be incremented any more.
CounterFull(fc) == ~(fc < LongMax)

\* No check for DNL among the immediates.
DnlUnsupportedNever(v) == FALSE

\* The immediate that scan data may not hold: DNL.
DnlUnsupported(v) == v = JPEG_DNL

\* Scan data is entered after an SOI as well.
StartsScanOrImage(v) == (v = JPEG_SOS) \/ (v = JPEG_SOI)

\* The marker after whose payload compressed data follows: SOS.
StartsScan(v) == v = JPEG_SOS

\* The count is written over the placeholder whatever the status.
CountKnownAlways(st) == TRUE

\* mjpg_index after the loop: the count is written only if status is set.
CountKnown(st) == st # 0

\* The exit code of main(): status inverted.
ExitCode(st) == IF st # 0 THEN 0 ELSE 1

Init ==
  /\ prog \in Programs
  /\ stream = <<>>
  /\ pos = 0
  /\ feof = FALSE
  /\ read_count = 0
  /\ c = 0
  /\ c2 = 0
  /\ status = 1
  /\ eoi_read = 0
  /\ mark_len = 0
  /\ frame_count = 0
  /\ fi = <<>>
  /\ fi_pos = 0
  /\ out = <<>>
  /\ diag = ""
  /\ pc = "start"
  /\ unit_start = 0
  /\ mark_end = 0
  /\ back = <<>>
  /\ units = <<>>

\* status = 0 with a diagnostic: the loops end and main() goes on after them.
Fail(msg) ==
  /\ status' = 0
  /\ diag' = msg
  /\ pc' = "finish"

\* What every getc does to the file and, in mjpg_index, to read_count.
Read(g) ==
  /\ stream' = g.stream
  /\ pos' = g.pos
  /\ feof' = g.feof
  /\ read_count' = IF prog = "mjpg_index" THEN read_count + 1 ELSE read_count

\* The input file is open; mjpg_index writes the placeholder count.
Start ==
  /\ pc = "start"
  /\ IF prog = "mjpg_index"
       THEN /\ fi' = writeInt64BE(fi, fi_pos, 0).bytes
            /\ fi_pos' = writeInt64BE(fi, fi_pos, 0).pos
       ELSE UNCHANGED <<fi, fi_pos>>
  /\ pc' = "top"
  /\ UNCHANGED <<prog, stream, pos, feof, read_count, c, c2, status, eoi_read,
                 mark_len, frame_count, out, diag, unit_start, mark_end, back, units>>

\* The first read of a loop iteration: the pre-marker byte or the end.
ReadPremark ==
  /\ pc = "top"
  /\ \E g \in Getc(stream, pos) :
       /\ Read(g)
       /\ c' = g.ch
       /\ unit_start' = pos
       /\ IF g.ch = EOF
            THEN IF g.feof
                   THEN IF eoi_read # 0
                          THEN /\ pc' = "finish"
                               /\ UNCHANGED <<status, diag>>
                          ELSE Fail("Missing EOI marker!")
                   ELSE Fail("I/O error!")
            ELSE IF MissingPremark(g.ch)
                   THEN Fail("Missing pre-marker byte!")
                   ELSE /\ pc' = "marker"
                        /\ UNCHANGED <<status, diag>>
  /\ UNCHANGED <<prog, c2, eoi_read, mark_len, frame_count, fi, fi_pos, out,
                 mark_end, back, units>>

\* The run of 0xff bytes up to the marker byte.
ReadMarker ==
  /\ pc = "marker"
  /\ \E g \in Getc(stream, pos) :
       /\ Read(g)
       /\ c' = g.ch
       /\ IF g.ch = EOF
            THEN /\ Fail(IF g.feof THEN "Missing marker byte!" ELSE "I/O error!")
                 /\ UNCHANGED <<mark_end, units>>
            ELSE IF g.ch # JPEG_PREMARK
                   THEN /\ pc' = "unit"
                        /\ mark_end' = g.pos
                        /\ units' = Append(units, [marker |-> g.ch,
                                                   start |-> unit_start,
                                                   end |-> g.pos])
                        /\ UNCHANGED <<status, diag>>
                   ELSE /\ pc' = "marker"
                        /\ UNCHANGED <<status, diag, mark_end, units>>
  /\ UNCHANGED <<prog, c2, eoi_read, mark_len, frame_count, fi, fi_pos, out,
                 unit_start, back>>

\* mjpg_index, the marker byte is read: an SOI is counted and its offset
\* written to the index; then the marker is classified.
HandleMarkerIndex ==
  /\ pc = "unit"
  /\ prog = "mjpg_index"
  /\ IF (c = JPEG_SOI) /\ CounterFull(frame_count)
       THEN /\ Fail("Too many frames!")
            /\ UNCHANGED <<frame_count, fi, fi_pos, mark_len>>
       ELSE /\ IF c = JPEG_SOI
                 THEN /\ frame_count' = frame_count + 1
                      /\ IF FrameOffset(read_count) < 0
                           THEN UNCHANGED <<fi, fi_pos>>
                           ELSE /\ fi' = writeInt64BE(fi, fi_pos,
                                                      FrameOffset(read_count)).bytes
                                /\ fi_pos' = writeInt64BE(fi, fi_pos,
                                                          FrameOffset(read_count)).pos
                 ELSE UNCHANGED <<frame_count, fi, fi_pos>>
            /\ IF (c = JPEG_SOI) /\ (FrameOffset(read_count) < 0)
                 THEN /\ pc' = "abort"
                      /\ UNCHANGED mark_len
                 ELSE IF ~ArgInRange(c)
                   THEN /\ pc' = "abort"
                        /\ UNCHANGED mark_len
                   ELSE IF ~jpeg_isStandAlone(c)
                     THEN /\ pc' = "len1"
                          /\ UNCHANGED mark_len
                     ELSE /\ pc' = "skip"
                          /\ mark_len' = 0
            /\ UNCHANGED <<status, diag>>
  /\ UNCHANGED <<prog, stream, pos, feof, read_count, c, c2, eoi_read, out,
                 unit_start, mark_end, back, units>>

\* jpgtrace, the marker byte is read: the marker is reported, an SOI is
\* counted; then the marker is classified.
HandleMarkerTrace ==
  /\ pc = "unit"
  /\ prog = "jpgtrace"
  /\ IF ~ArgInRange(c)
       THEN /\ pc' = "abort"
            /\ out' = IF (c = JPEG_SOI) /\ (frame_count > 0)
                        THEN Append(out, BlankLine) ELSE out
            /\ UNCHANGED <<frame_count, mark_len>>
       ELSE /\ out' = (IF (c = JPEG_SOI) /\ (frame_count > 0)
                         THEN Append(out, BlankLine) ELSE out)
                      \o reportMarker(c, FALSE)
            /\ frame_count' = IF (c = JPEG_SOI) /\ (frame_count < LongMax)
                                THEN frame_count + 1 ELSE frame_count
            /\ IF ~jpgtrace_jpeg_isStandAlone(c)
                 THEN /\ pc' = "len1"
                      /\ UNCHANGED mark_len
                 ELSE /\ pc' = "skip"
                      /\ mark_len' = 0
  /\ UNCHANGED <<prog, stream, pos, feof, read_count, c, c2, status, eoi_read,
                 fi, fi_pos, diag, unit_start, mark_end, back, units>>

\* The first length byte of a marker that is not stand-alone.
ReadLength1 ==
  /\ pc = "len1"
  /\ \E g \in Getc(stream, pos) :
       /\ Read(g)
       /\ c2' = g.ch
       /\ IF g.ch = EOF
            THEN /\ Fail(IF g.feof THEN "Missing marker length!" ELSE "I/O error!")
                 /\ UNCHANGED mark_len
            ELSE /\ mark_len' = g.ch * 256
                 /\ pc' = "len2"
                 /\ UNCHANGED <<status, diag>>
  /\ UNCHANGED <<prog, c, eoi_read, frame_count, fi, fi_pos, out, unit_start,
                 mark_end, back, units>>

\* The second length byte, the check of the length and the payload length.
ReadLength2 ==
  /\ pc = "len2"
  /\ \E g \in Getc(stream, pos) :
       /\ Read(g)
       /\ c2' = g.ch
       /\ IF g.ch = EOF
            THEN /\ Fail(IF g.feof THEN "Partial marker length!" ELSE "I/O error!")
                 /\ UNCHANGED mark_len
            ELSE IF LengthTooSmall(LengthField(mark_len \div 256, g.ch))
                   THEN /\ Fail("Marker length less than two!")
                        /\ mark_len' = LengthField(mark_len \div 256, g.ch)
                   ELSE /\ mark_len' = PayloadLen(LengthField(mark_len \div 256, g.ch))
                        /\ pc' = "skip"
                        /\ UNCHANGED <<status, diag>>
  /\ UNCHANGED <<prog, c, eoi_read, frame_count, fi, fi_pos, out, unit_start,
                 mark_end, back, units>>

\* The payload is sought over; an SOS goes on into its scan data, any
\* other marker ends the loop iteration.
SkipPayload ==
  /\ pc = "skip"
  /\ \/ /\ IF mark_len > 0
             THEN /\ pos' = SeekCur(pos, mark_len)
                  /\ read_count' = IF prog = "mjpg_index"
                                     THEN read_count + mark_len ELSE read_count
             ELSE UNCHANGED <<pos, read_count>>
        /\ IF StartsScan(c)
             THEN /\ pc' = "scan"
                  /\ UNCHANGED eoi_read
             ELSE /\ pc' = "top"
                  /\ eoi_read' = EoiFlag(c)
        /\ back' = <<>>
        /\ UNCHANGED <<status, diag>>
     \/ /\ mark_len > 0
        /\ Fail("Seek failed!")
        /\ UNCHANGED <<pos, read_count, eoi_read, back>>
  /\ UNCHANGED <<prog, stream, feof, c, c2, mark_len, frame_count, fi, fi_pos,
                 out, unit_start, mark_end, units>>

\* Scan data: one byte of compressed data, or the 0xff before a marker.
ScanByte ==
  /\ pc = "scan"
  /\ \E g \in Getc(stream, pos) :
       /\ Read(g)
       /\ c2' = g.ch
       /\ IF g.ch = EOF
            THEN Fail(IF g.feof THEN "EOF in compressed stream!" ELSE "I/O error!")
            ELSE /\ pc' = IF g.ch # JPEG_PREMARK THEN "scan" ELSE "scanmark"
                 /\ UNCHANGED <<status, diag>>
  /\ UNCHANGED <<prog, c, eoi_read, mark_len, frame_count, fi, fi_pos, out,
                 unit_start, mark_end, back, units>>

\* Scan data after a 0xff: the run of 0xff bytes up to a byte V, and what
\* V does: 0 is an escape, an immediate is reported (jpgtrace) and DNL
\* fails, anything else ends the scan data with the two-byte backtrack.
ScanMarker ==
  /\ pc = "scanmark"
  /\ \E g \in Getc(stream, pos) :
       /\ stream' = g.stream
       /\ feof' = g.feof
       /\ c2' = g.ch
       /\ IF g.ch = EOF
            THEN /\ Fail(IF g.feof THEN "EOF in compressed stream!" ELSE "I/O error!")
                 /\ pos' = g.pos
                 /\ read_count' = IF prog = "mjpg_index"
                                    THEN read_count + 1 ELSE read_count
                 /\ UNCHANGED <<out, eoi_read, back>>
            ELSE IF g.ch = JPEG_PREMARK
              THEN /\ pc' = "scanmark"
                   /\ pos' = g.pos
                   /\ read_count' = IF prog = "mjpg_index"
                                      THEN read_count + 1 ELSE read_count
                   /\ UNCHANGED <<status, diag, out, eoi_read, back>>
            ELSE IF IsEscape(g.ch)
              THEN /\ pc' = "scan"
                   /\ pos' = g.pos
                   /\ read_count' = IF prog = "mjpg_index"
                                      THEN read_count + 1 ELSE read_count
                   /\ UNCHANGED <<status, diag, out, eoi_read, back>>
            ELSE IF ~ArgInRange(g.ch)
              THEN /\ pc' = "abort"
                   /\ pos' = g.pos
                   /\ read_count' = IF prog = "mjpg_index"
                                      THEN read_count + 1 ELSE read_count
                   /\ UNCHANGED <<status, diag, out, eoi_read, back>>
            ELSE IF isImmediateOf(prog, g.ch)
              THEN /\ pos' = g.pos
                   /\ read_count' = IF prog = "mjpg_index"
                                      THEN read_count + 1 ELSE read_count
                   /\ out' = IF prog = "jpgtrace"
                               THEN out \o reportMarker(g.ch, TRUE) ELSE out
                   /\ IF DnlUnsupported(g.ch)
                        THEN Fail("DNL markers not supported!")
                        ELSE /\ pc' = "scan"
                             /\ UNCHANGED <<status, diag>>
                   /\ UNCHANGED <<eoi_read, back>>
              ELSE \/ /\ pos' = SeekCur(g.pos, BacktrackOff)
                      /\ read_count' = IF prog = "mjpg_index"
                                         THEN CountBack(read_count + 1)
                                         ELSE read_count
                      /\ back' = <<g.ch, pos'>>
                      /\ eoi_read' = EoiFlag(c)
                      /\ pc' = "top"
                      /\ UNCHANGED <<status, diag, out>>
                   \/ /\ Fail("Seek failed!")
                      /\ pos' = g.pos
                      /\ read_count' = IF prog = "mjpg_index"
                                         THEN read_count + 1 ELSE read_count
                      /\ UNCHANGED <<out, eoi_read, back>>
  /\ UNCHANGED <<prog, c, mark_len, frame_count, fi, fi_pos, unit_start,
                 mark_end, units>>

\* After the loop, mjpg_index: at least one frame, then the count is
\* written over the placeholder.
FinishIndex ==
  /\ pc = "finish"
  /\ prog = "mjpg_index"
  /\ IF (status # 0) /\ NoFrames(frame_count)
       THEN /\ status' = 0
            /\ diag' = "No frames found!"
            /\ UNCHANGED <<fi, fi_pos>>
       ELSE /\ IF CountKnown(status)
                 THEN /\ fi' = writeInt64BE(fi, Rewind, frame_count).bytes
                      /\ fi_pos' = writeInt64BE(fi, Rewind, frame_count).pos
                 ELSE UNCHANGED <<fi, fi_pos>>
            /\ UNCHANGED <<status, diag>>
  /\ pc' = "done"
  /\ UNCHANGED <<prog, stream, pos, feof, read_count, c, c2, eoi_read,
                 mark_len, frame_count, out, unit_start, mark_end, back, units>>

\* After the loop, jpgtrace: the statistics.
FinishTrace ==
  /\ pc = "finish"
  /\ prog = "jpgtrace"
  /\ out' = IF status # 0 THEN out \o ReportStatistics(frame_count) ELSE out
  /\ pc' = "done"
  /\ UNCHANGED <<prog, stream, pos, feof, read_count, c, c2, status, eoi_read,
                 mark_len, frame_count, fi, fi_pos, diag, unit_start, mark_end,
                 back, units>>

Next ==
  \/ Start
  \/ ReadPremark
  \/ ReadMarker
  \/ HandleMarkerIndex
  \/ HandleMarkerTrace
  \/ ReadLength1
  \/ ReadLength2
  \/ SkipPayload
  \/ ScanByte
  \/ ScanMarker
  \/ FinishIndex
  \/ FinishTrace

Spec == Init /\ [][Next]_vars

(* ---- properties ---- *)

\* The values the JPEG standard makes stand-alone and immediate.
StandAloneSet == {1} \cup (208..215) \cup {216, 217}
ImmediateSet == (208..215) \cup {220}

\* The top-level unit read last, and whether it is an EOI that ends at the
\* cursor.
LastUnit == units[Len(units)]
LastUnitWasEOI ==
  Len(units) > 0 /\ LastUnit.marker = JPEG_EOI /\ LastUnit.end = pos

\* The SOI units among the top-level units, in order.
IsSoiUnit(u) == u.marker = JPEG_SOI
SoiUnits == SelectSeq(units, IsSoiUnit)

\* C1: the scan succeeds only if the end of the stream is hit on the first
\* read of a top-level unit directly after a completed EOI unit; an end of
\* the stream hit anywhere else makes the scan fail.
C1_SuccessOnlyAfterEoi ==
  /\ []((pc \in {"finish", "done"} /\ status # 0)
          => (feof /\ c = EOF /\ unit_start = pos /\ LastUnitWasEOI))
  /\ [][(feof' /\ ~feof)
          => ((status' # 0) <=> (pc = "top" /\ LastUnitWasEOI))]_vars

C1_Witness == pc = "finish" /\ status # 0 /\ feof /\ Len(units) = 2

\* C2: a 0xff run followed by a byte V that is neither 0 nor immediate ends
\* the scan data with the cursor moved back two bytes onto the 0xff before
\* V, without any output for V; the next top-level unit is V at that offset
\* (and mjpg_index records that offset if V is SOI).
C2_BacktrackOntoPremark ==
  /\ []((pc = "unit" /\ back # <<>>)
          => (c = back[1] /\ unit_start = back[2] /\ mark_end = back[2] + 2))
  /\ [][(pc = "scanmark" /\ status' # 0 /\ c2' \notin {EOF, 0, JPEG_PREMARK}
           /\ c2' \notin ImmediateSet)
          => (pc' = "top" /\ back' = <<c2', pos'>>)]_vars
  /\ [][(pc = "scanmark" /\ pc' = "top")
          => /\ pos' = (pos + 1) - 2
             /\ stream'[pos' + 1] = JPEG_PREMARK
             /\ stream'[pos' + 2] = c2'
             /\ c2' \notin ImmediateSet /\ c2' # 0
             /\ out' = out /\ fi' = fi /\ units' = units]_vars
  /\ [][(pc = "unit" /\ back # <<>> /\ prog = "mjpg_index" /\ c = JPEG_SOI
           /\ status' # 0)
          => Int64At(fi', NumEntries(fi') + 1) = back[2]]_vars

C2_Witness ==
  pc = "unit" /\ back # <<>> /\ back[2] >= 1 /\ stream[back[2]] = JPEG_PREMARK

\* C3: when mjpg_index succeeds, the count at the start of the index is the
\* number of SOI units read, is the number of offsets after it, and is at
\* least 1; without an SOI the run fails and the count stays 0.
C3_CountIsNumberOfSoi ==
  (prog = "mjpg_index" /\ pc = "done")
    => /\ (status # 0)
            => /\ Int64At(fi, 1) = Len(SoiUnits)
               /\ Int64At(fi, 1) = NumEntries(fi)
               /\ Len(fi) = 8 * (1 + NumEntries(fi))
               /\ Int64At(fi, 1) >= 1
       /\ (Len(SoiUnits) = 0) => (status = 0 /\ Int64At(fi, 1) = 0)

C3_Witness ==
  prog = "mjpg_index" /\ pc = "done" /\ status # 0 /\ Int64At(fi, 1) = 2

\* C4: at every point of a run of mjpg_index the offsets written so far are
\* strictly ascending.
C4_OffsetsAscending ==
  (prog = "mjpg_index")
    => \A k \in 2..NumEntries(fi) : Int64At(fi, k) < Int64At(fi, k + 1)

C4_Witness ==
  prog = "mjpg_index" /\ pc = "skip" /\ c = JPEG_SOI /\ back # <<>>
    /\ NumEntries(fi) >= 2

\* C5: every offset of the index is the position of an 0xff that is directly
\* followed by 0xd8, and while the scan runs read_count is the position of
\* the input cursor.
C5_OffsetsPointAtSoi ==
  (prog = "mjpg_index")
    => /\ \A k \in 2..(NumEntries(fi) + 1) :
            /\ Int64At(fi, k) + 2 <= Len(stream)
            /\ stream[Int64At(fi, k) + 1] = JPEG_PREMARK
            /\ stream[Int64At(fi, k) + 2] = JPEG_SOI
       /\ (pc \notin {"finish", "done", "abort"}) => (read_count = pos)

C5_Witness ==
  prog = "mjpg_index" /\ pc = "skip" /\ c = JPEG_SOI /\ back # <<>>
    /\ \E k \in 1..Len(stream) : stream[k] = Skipped

\* C6, as claimed: every offset of the index is the position at which the
\* scanner began to read the SOI unit.
C6_OffsetIsUnitStart ==
  (prog = "mjpg_index")
    => \A j \in 1..NumEntries(fi) : Int64At(fi, j + 1) = SoiUnits[j].start

\* C6, amended: every offset of the index is the position of the 0xff
\* directly before the SOI marker byte, the last byte of the run of 0xff
\* bytes that starts where the scanner began to read the unit.
C6_OffsetIsLastPremark ==
  (prog = "mjpg_index")
    => \A j \in 1..NumEntries(fi) :
         /\ Int64At(fi, j + 1) = SoiUnits[j].end - 2
         /\ SoiUnits[j].start <= Int64At(fi, j + 1)
         /\ \A k \in (SoiUnits[j].start + 1)..(SoiUnits[j].end - 1) :
              stream[k] = JPEG_PREMARK

C6_Witness ==
  prog = "mjpg_index" /\ NumEntries(fi) >= 1
    /\ SoiUnits[1].start < Int64At(fi, 2)

\* C7: a stand-alone marker at top level has no length bytes read, a payload
\* length of 0 and no seek: the unit ends one past the marker byte.
C7_StandAloneNoLength ==
  /\ []((pc \in {"len1", "len2"}) => (c \notin StandAloneSet))
  /\ [][(pc = "skip" /\ c \in StandAloneSet)
          => /\ mark_len = 0
             /\ pos = mark_end
             /\ pos' = pos
             /\ stream' = stream
             /\ pc' = "top"]_vars

C7_Witness == pc = "top" /\ c = JPEG_TEM /\ pos = mark_end /\ status # 0

\* C8: a marker with length bytes hi, lo and hi*256+lo >= 2 has the payload
\* length hi*256+lo-2, and the unit's payload ends that many bytes after
\* the length bytes; for 00 02 nothing is skipped.
C8_PayloadLength ==
  /\ [][(pc = "len2" /\ c2' # EOF /\ (stream'[mark_end + 1] * 256) + c2' >= 2)
          => (pc' = "skip" /\ status' # 0
                /\ mark_len' = ((stream'[mark_end + 1] * 256) + c2') - 2)]_vars
  /\ [][(pc = "skip" /\ c \notin StandAloneSet /\ status' # 0)
          => /\ mark_len
                  = ((stream[mark_end + 1] * 256) + stream[mark_end + 2]) - 2
             /\ mark_len >= 0
             /\ pos = mark_end + 2
             /\ pos' = (mark_end + 2) + mark_len
             /\ (stream[mark_end + 1] = 0 /\ stream[mark_end + 2] = 2)
                  => (mark_len = 0 /\ pos' = pos)]_vars

C8_Witness ==
  pc = "top" /\ c = JPEG_DNL /\ pos = mark_end + 3 /\ status # 0

\* C9: a length field of 0 or 1 is fatal: the scan stops right after the two
\* length bytes, nothing is skipped or read afterwards, and the run fails.
C9_ShortLengthFatal ==
  /\ [][(pc = "len2" /\ c2' # EOF /\ (stream'[mark_end + 1] * 256) + c2' < 2)
          => (status' = 0 /\ pc' = "finish" /\ pos' = mark_end + 2)]_vars
  /\ [][(pc \in {"finish", "done"} /\ status = 0)
          => (pos' = pos /\ stream' = stream /\ status' = 0)]_vars
  /\ []((pc = "done" /\ status = 0) => (ExitCode(status) = 1))

C9_Witness ==
  pc = "done" /\ diag = "Marker length less than two!"
    /\ stream[mark_end + 2] = 1 /\ pos = mark_end + 2

\* C10: in scan data a 0xff run followed by 0x00 gives no output, no
\* backtrack and no end of the scan data: the scan goes on with the byte
\* after the 0x00.
C10_EscapeIsData ==
  [][(pc = "scanmark" /\ c2' = 0)
       => /\ pc' = "scan"
          /\ pos' = pos + 1
          /\ status' = status
          /\ out' = out /\ fi' = fi /\ units' = units /\ back' = back
          /\ frame_count' = frame_count /\ eoi_read' = eoi_read
          /\ (prog = "mjpg_index") => (read_count' = read_count + 1)]_vars

C10_Witness ==
  pc = "scan" /\ c2 = 0 /\ pos >= 3 /\ pos <= Len(stream)
    /\ stream[pos] = 0 /\ stream[pos - 1] = JPEG_PREMARK
    /\ stream[pos - 2] = JPEG_PREMARK

(* ---- the marker classifier on its own ---- *)

\* The classifier functions of program prog applied to one value: c is the
\* argument, c2 the result of jpeg_isStandAlone and mark_len the result of
\* jpeg_isImmediate (1 or 0); an argument outside 0..0xfe ends in abort().
ClassifyArgs == (0 - 1)..255

ClassifyInit ==
  /\ prog \in Programs
  /\ c \in ClassifyArgs
  /\ pc = "classify"
  /\ stream = <<>>
  /\ pos = 0
  /\ feof = FALSE
  /\ read_count = 0
  /\ c2 = 0
  /\ status = 1
  /\ eoi_read = 0
  /\ mark_len = 0
  /\ frame_count = 0
  /\ fi = <<>>
  /\ fi_pos = 0
  /\ out = <<>>
  /\ diag = ""
  /\ unit_start = 0
  /\ mark_end = 0
  /\ back = <<>>
  /\ units = <<>>

Classify ==
  /\ pc = "classify"
  /\ IF ~ArgInRange(c)
       THEN /\ pc' = "abort"
            /\ UNCHANGED <<c2, mark_len>>
       ELSE /\ pc' = "classified"
            /\ c2' = IF isStandAloneOf(prog, c) THEN 1 ELSE 0
            /\ mark_len' = IF isImmediateOf(prog, c) THEN 1 ELSE 0
  /\ UNCHANGED <<prog, stream, pos, feof, read_count, c, status, eoi_read,
                 frame_count, fi, fi_pos, out, diag, unit_start, mark_end,
                 back, units>>

ClassifyNext == Classify

ClassifySpec == ClassifyInit /\ [][ClassifyNext]_vars

(* ---- properties of the scan data and of the classifier ---- *)

\* The restart markers RST0..RST7.
RestartSet == 208..215

\* The line jpgtrace prints for an immediate marker with a name.
ImmediateLine(text, n) == [kind |-> "Immediate", name |-> text, num |-> n]

\* C11: in scan data a 0xff run followed by a restart marker gives exactly
\* one immediate event (one line of jpgtrace; mjpg_index has no output for
\* it), does not end the scan data and never moves the cursor back: the
\* scan goes on with the next byte.
C11_RestartIsImmediate ==
  [][(pc = "scanmark" /\ c2' \in RestartSet)
       => /\ pc' = "scan"
          /\ pos' = pos + 1
          /\ status' = status
          /\ units' = units /\ back' = back /\ eoi_read' = eoi_read
          /\ fi' = fi /\ frame_count' = frame_count
          /\ (prog = "jpgtrace")
               => (out' = Append(out, ImmediateLine("RST", c2' - 208)))
          /\ (prog = "mjpg_index") => (out' = out)]_vars

C11_Witness ==
  prog = "jpgtrace" /\ pc = "scan" /\ c2 = 208 /\ status # 0
    /\ Len(out) >= 2 /\ out[Len(out)] = ImmediateLine("RST", 0)
    /\ out[Len(out) - 1].kind = "Marker" /\ out[Len(out) - 1].name = "SOS"

\* C12: in scan data a 0xff run followed by DNL ends the scan in failure in
\* both programs, while DNL read as a top-level marker goes on to its
\* length field like any marker that is not stand-alone.
C12_DnlInScanDataFatal ==
  /\ [][(pc = "scanmark" /\ c2' = JPEG_DNL)
          => (status' = 0 /\ pc' = "finish"
                /\ diag' = "DNL markers not supported!")]_vars
  /\ [][(pc = "unit" /\ c = JPEG_DNL)
          => (pc' = "len1" /\ status' = status /\ diag' = diag)]_vars
  /\ []((diag = "DNL markers not supported!")
          => (status = 0 /\ pc \in {"finish", "done"} /\ c = JPEG_SOS
                /\ c2 = JPEG_DNL))

C12_Witness ==
  pc = "done" /\ diag = "DNL markers not supported!" /\ ExitCode(status) = 1

\* C13, as claimed: no immediate event is ever emitted for DNL: jpgtrace
\* never prints an "Immediate DNL" line.
C13_NoImmediateDnlLine ==
  \A i \in 1..Len(out) : out[i] # ImmediateLine("DNL", 0)

\* C13, amended: a DNL in scan data always fails the scan; jpgtrace prints
\* one "Immediate DNL" line for it before the failure, as the last line of
\* its output, and mjpg_index prints and writes nothing for it.
C13_DnlReportedThenFatal ==
  /\ [][(pc = "scanmark" /\ c2' = JPEG_DNL)
          => /\ status' = 0
             /\ (prog = "jpgtrace")
                  => (out' = Append(out, ImmediateLine("DNL", 0)))
             /\ (prog = "mjpg_index") => (out' = out /\ fi' = fi)]_vars
  /\ [](\A i \in 1..Len(out) :
          (out[i] = ImmediateLine("DNL", 0))
            => (i = Len(out) /\ status = 0 /\ prog = "jpgtrace"))

C13_Witness ==
  prog = "jpgtrace" /\ pc = "done" /\ status = 0 /\ Len(out) >= 1
    /\ out[Len(out)] = ImmediateLine("DNL", 0)

\* C14: every top-level marker unit has a marker value in 1..254: the byte
\* 0 after a pre-marker 0xff is never taken for a marker, never reported
\* and never followed by the reading of a length field.
C14_MarkerValuesInRange ==
  /\ \A k \in 1..Len(units) : units[k].marker \in 1..254
  /\ (pc \in {"len1", "len2", "skip"}) => (c \in 1..254)
  /\ \A i \in 1..Len(out) : ~(out[i].kind = "Marker" /\ out[i].name = "0x"
                                /\ out[i].num = 0)

\* Exactly one of three.
ExactlyOne(x, y, z) ==
  (x /\ ~y /\ ~z) \/ (~x /\ y /\ ~z) \/ (~x /\ ~y /\ z)

\* C15, as claimed: every marker value in 1..254 is in exactly one of the
\* categories stand-alone, immediate and length-prefixed, except DNL, which
\* is immediate and length-prefixed.
C15_ExactlyOneCategory ==
  (pc = "classified" /\ c \in 1..254)
    => IF c = JPEG_DNL
         THEN mark_len = 1 /\ c2 = 0
         ELSE ExactlyOne(c2 = 1, mark_len = 1, c2 = 0)

\* C15, amended: immediate is no category apart from the other two: of the
\* values 1..254 the restart markers RST0..RST7 are exactly the values that
\* are stand-alone and immediate, DNL is the one value that is
\* length-prefixed and immediate, and no other value is immediate.
C15_ImmediateOverlaps ==
  (pc = "classified" /\ c \in 1..254)
    => /\ (c2 = 1 /\ mark_len = 1) <=> (c \in RestartSet)
       /\ (c2 = 0 /\ mark_len = 1) <=> (c = JPEG_DNL)
       /\ (mark_len = 1) => (c \in RestartSet \cup {JPEG_DNL})

C15_Witness ==
  pc = "classified" /\ c = 208 /\ c2 = 1 /\ mark_len = 1

\* C16: in both programs, for every value in 0..254, jpeg_isStandAlone is
\* true exactly for TEM, RST0..RST7, SOI and EOI, and jpeg_isImmediate
\* exactly for DNL and RST0..RST7; 0 is in neither set.
C16_ClassifierSets ==
  /\ (pc = "classified")
       => /\ c \in 0..254
          /\ (c2 = 1) <=> (c \in StandAloneSet)
          /\ (c2 = 0) <=> (c \notin StandAloneSet)
          /\ (mark_len = 1) <=> (c \in ImmediateSet)
          /\ (mark_len = 0) <=> (c \notin ImmediateSet)
          /\ (c = 0) => (c2 = 0 /\ mark_len = 0)
  /\ (pc = "abort") => (c \notin 0..254)

C16_Witness ==
  prog = "jpgtrace" /\ pc = "classified" /\ c = 215 /\ c2 = 1
    /\ mark_len = 1

\* The line of jpgtrace for an SOI at top level.
IsSoiLine(l) == l.kind = "Marker" /\ l.name = "SOI"

\* The number of lines of o that say "Marker".
RECURSIVE MarkerLines(_)
MarkerLines(o) ==
  IF o = <<>> THEN 0
  ELSE MarkerLines(Tail(o)) + (IF Head(o).kind = "Marker" THEN 1 ELSE 0)

\* C17: in the output of jpgtrace every marker gives one line, an empty
\* line stands only directly before the line of an SOI that is not the
\* first one and directly before the line with the image count, and the
\* count printed is the number of SOI units.
C17_TraceLines ==
  (prog = "jpgtrace")
    => /\ \A i \in 1..Len(out) :
            (out[i] = BlankLine)
              => /\ i < Len(out)
                 /\ \/ /\ IsSoiLine(out[i + 1])
                       /\ \E j \in 1..(i - 1) : IsSoiLine(out[j])
                    \/ out[i + 1].kind = "Number of images"
       /\ MarkerLines(out) = Len(units) - (IF pc = "unit" THEN 1 ELSE 0)
       /\ (pc = "done" /\ status # 0)
            => /\ out[Len(out)].kind = "Number of images"
               /\ out[Len(out)].name = ""
               /\ out[Len(out)].num = Len(SoiUnits)

\* C18, as claimed: in each program an SOI read while the frame counter is
\* at its maximum ends the run in failure.
C18_OverflowFatal ==
  [][(pc = "unit" /\ c = JPEG_SOI /\ frame_count = LongMax)
       => (status' = 0)]_vars

\* C18, amended: only mjpg_index fails on an SOI read while the frame
\* counter is at its maximum; jpgtrace reports the SOI, leaves the counter
\* at the maximum and goes on, and after a successful scan it prints
\* "(overflow!)" for the count whenever the counter is at the maximum.
C18_OverflowFatalInIndexOnly ==
  /\ [][(pc = "unit" /\ c = JPEG_SOI /\ frame_count = LongMax)
          => IF prog = "mjpg_index"
               THEN /\ status' = 0
                    /\ pc' = "finish"
                    /\ diag' = "Too many frames!"
                    /\ fi' = fi
                    /\ frame_count' = frame_count
               ELSE /\ status' = status
                    /\ diag' = diag
                    /\ pc' = "skip"
                    /\ frame_count' = LongMax
                    /\ out' = Append(Append(out, BlankLine),
                                     [kind |-> "Marker", name |-> "SOI",
                                      num |-> 0])]_vars
  /\ [](frame_count <= LongMax)
  /\ []((prog = "jpgtrace" /\ pc = "done" /\ status # 0)
          => ((out[Len(out)].name = "(overflow!)")
                <=> (frame_count = LongMax)))

C18_Witness ==
  prog = "jpgtrace" /\ pc = "skip" /\ c = JPEG_SOI /\ status # 0
    /\ frame_count = LongMax /\ Len(SoiUnits) = LongMax + 1

\* C19, as claimed: a first byte of the stream that is not 0xff does not
\* make the scan fail.
C19_LeadingBytesSkipped ==
  [][(pc = "top" /\ pos = 0 /\ c' \notin {EOF, JPEG_PREMARK})
       => (status' # 0)]_vars

\* C19, amended: at the start of the stream nothing is skipped: a first
\* byte that is not 0xff ends the scan in failure after that one byte, so
\* that the first marker unit of every stream starts at offset 0.
C19_FirstByteMustBePremark ==
  /\ [][(pc = "top" /\ pos = 0 /\ c' \notin {EOF, JPEG_PREMARK})
          => /\ status' = 0
             /\ pc' = "finish"
             /\ diag' = "Missing pre-marker byte!"
             /\ pos' = 1
             /\ units' = units /\ out' = out /\ fi' = fi]_vars
  /\ []((Len(units) >= 1)
          => (units[1].start = 0 /\ stream[1] = JPEG_PREMARK))

C19_Witness ==
  pc = "done" /\ diag = "Missing pre-marker byte!" /\ pos = 1
    /\ units = <<>> /\ status = 0

\* C20: after a completed top-level unit, a byte that is not 0xff in the
\* place of the next pre-marker byte ends the scan in failure: no byte is
\* skipped to find a marker again and nothing more is reported.
C20_NoResync ==
  /\ [][(pc = "top" /\ Len(units) > 0 /\ c' \notin {EOF, JPEG_PREMARK})
          => /\ status' = 0
             /\ pc' = "finish"
             /\ diag' = "Missing pre-marker byte!"
             /\ pos' = pos + 1
             /\ units' = units /\ out' = out /\ fi' = fi]_vars
  /\ [][(diag = "Missing pre-marker byte!")
          => (status' = 0 /\ pos' = pos /\ stream' = stream
                /\ units' = units /\ out' = out /\ fi' = fi)]_vars

C20_Witness ==
  pc = "done" /\ diag = "Missing pre-marker byte!" /\ Len(units) >= 1
    /\ LastUnit.marker = JPEG_EOI /\ eoi_read = 1 /\ pos = LastUnit.end + 1

\* The diagnostics of a unit that fails in its length field.
LengthDiags ==
  {"Missing marker length!", "Partial marker length!",
   "Marker length less than two!"}

\* C21, as claimed: the marker line of a top-level unit is printed only
\* after its length field is read and checked and its payload skipped, so
\* that a unit failing in its length field has no marker line.
C21_EventAfterPayload ==
  (prog = "jpgtrace")
    => /\ (pc \in {"len1", "len2", "skip"}) => (MarkerLines(out) < Len(units))
       /\ (diag \in LengthDiags) => (MarkerLines(out) < Len(units))

\* C21, amended: jpgtrace prints the marker line of a top-level unit as
\* soon as the marker byte is read, before any byte of the length field is
\* read: while the length is read and the payload skipped the line is
\* already printed, also for a unit that then fails in its length field.
C21_EventBeforeLength ==
  /\ [][(prog = "jpgtrace" /\ pc = "unit")
          => /\ MarkerLines(out') = MarkerLines(out) + 1
             /\ \E i \in (Len(out) + 1)..Len(out') :
                  out'[i] = [kind |-> "Marker", name |-> MarkerName(c)[1],
                             num |-> MarkerName(c)[2]]
             /\ pos' = pos /\ stream' = stream
             /\ pc' \in {"len1", "skip"}]_vars
  /\ []((prog = "jpgtrace" /\ pc # "unit") => (MarkerLines(out) = Len(units)))
  /\ [][(prog = "jpgtrace" /\ pc \in {"len1", "len2", "skip"})
          => (MarkerLines(out') = MarkerLines(out))]_vars

C21_Witness ==
  prog = "jpgtrace" /\ pc = "done" /\ diag = "Marker length less than two!"
    /\ Len(units) = 2 /\ MarkerLines(out) = 2
    /\ out[Len(out)] = [kind |-> "Marker", name |-> "SOS", num |-> 0]

\* The number of lines of o that say "Immediate".
RECURSIVE ImmediateLines(_)
ImmediateLines(o) ==
  IF o = <<>> THEN 0
  ELSE ImmediateLines(Tail(o)) + (IF Head(o).kind = "Immediate" THEN 1 ELSE 0)

\* C22: in the output of jpgtrace the marker line last printed before an
\* immediate line is always that of an SOS, with only immediate lines in
\* between; immediate lines are printed only inside the scan data of an
\* SOS; a restart marker read at top level gives a marker line.
C22_ImmediatesFollowSos ==
  /\ []((prog = "jpgtrace")
          => \A i \in 1..Len(out) :
               (out[i].kind = "Immediate")
                 => \E j \in 1..(i - 1) :
                      /\ out[j] = [kind |-> "Marker", name |-> "SOS", num |-> 0]
                      /\ \A k \in (j + 1)..(i - 1) : out[k].kind = "Immediate")
  /\ [][(ImmediateLines(out') # ImmediateLines(out))
          => (pc = "scanmark" /\ c = JPEG_SOS /\ units' = units
                /\ units[Len(units)].marker = JPEG_SOS)]_vars
  /\ [][(prog = "jpgtrace" /\ pc = "unit" /\ c \in RestartSet)
          => (out' = Append(out, [kind |-> "Marker", name |-> "RST",
                                  num |-> c - JPEG_RST_MIN]))]_vars

C22_Witness ==
  /\ prog = "jpgtrace"
  /\ \E i, j \in 1..Len(out) :
       /\ i < j
       /\ out[i] = [kind |-> "Marker", name |-> "RST", num |-> 0]
       /\ out[j] = ImmediateLine("RST", 0)
       /\ out[j - 1] = [kind |-> "Marker", name |-> "SOS", num |-> 0]

\* C23: the cursor moves backwards only in the step that ends scan data,
\* by two bytes from where the marker byte was read, and once for each SOS;
\* every other step leaves it or moves it forward; every top-level unit
\* starts behind the start of the unit before it.
C23_OnlyBacktrackGoesBack ==
  /\ [][(pos' < pos)
          => /\ pc = "scanmark" /\ pc' = "top"
             /\ pos' = (pos + 1) - 2
             /\ units[Len(units)].marker = JPEG_SOS
             /\ back = <<>> /\ back' # <<>>]_vars
  /\ [][(pc = "scanmark" /\ pc' = "top") => (pos' = (pos + 1) - 2)]_vars
  /\ [][(pc # "scanmark") => (pos' >= pos)]_vars
  /\ [](\A k \in 2..Len(units) : units[k].start > units[k - 1].start)

C23_Witness ==
  /\ pc = "unit" /\ back # <<>> /\ Len(units) >= 2
  /\ units[Len(units) - 1].marker = JPEG_SOS
  /\ units[Len(units)].start = back[2]
  /\ units[Len(units)].start = units[Len(units) - 1].start + 4

\* The program run to its end: no step of main() is left undone for ever.
LiveSpec == Init /\ [][Next]_vars /\ WF_vars(Next)

\* C24: on every input file main() comes to its end, in success or with
\* status 0, and every loop iteration that goes on to another one has
\* moved the cursor behind the start of its unit, also an SOS whose scan
\* data ends at once with the backtrack.
C24_Terminates ==
  /\ <>(pc = "done")
  /\ [][(pc # "start" /\ pc' = "top") => (pos' > unit_start)]_vars
  /\ [][(pc = "scanmark" /\ pc' = "top") => (pos' >= unit_start + 4)]_vars

C24_Witness ==
  /\ pc = "done" /\ status # 0 /\ Len(units) = 2
  /\ units[1].marker = JPEG_SOS /\ units[2].marker = JPEG_EOI
  /\ units[2].start = units[1].start + 4

\* C25: jpeg_isStandAlone, jpeg_isImmediate and reportMarker are called
\* with values of 0..254 only: neither 0xff nor EOF is ever the marker they
\* are given at top level or in scan data, and abort() is never reached.
C25_ArgumentsInRange ==
  /\ [](pc # "abort")
  /\ []((pc = "unit") => (c \in 0..254 /\ status # 0))
  /\ [][(pc = "scanmark" /\ (pc' = "top" \/ out' # out \/ back' # back))
          => (c2' \in 1..254)]_vars

C25_Witness ==
  /\ pc = "len1" /\ c = 0 /\ status # 0
  /\ \E k \in 1..Len(stream) : stream[k] = JPEG_PREMARK

\* The count field: the first eight bytes of the index file.
CountField(f) == IF Len(f) >= 8 THEN SubSeq(f, 1, 8) ELSE f

\* C26: when mjpg_index ends in failure the count field of the index file
\* holds the placeholder 0, also when offset entries were written behind
\* it; the count field is written again only after the loop, with status
\* set and at least one frame counted.
C26_PlaceholderKeptOnFailure ==
  /\ []((prog = "mjpg_index" /\ pc # "start" /\ ~(pc = "done" /\ status # 0))
          => /\ Len(fi) >= 8
             /\ CountField(fi) = <<0, 0, 0, 0, 0, 0, 0, 0>>
             /\ Int64At(fi, 1) = 0)
  /\ []((prog = "mjpg_index" /\ pc = "done" /\ status = 0)
          => (NumEntries(fi) = frame_count /\ Len(fi) = 8 * (frame_count + 1)))
  /\ [][(pc # "start" /\ (CountField(fi') # CountField(fi) \/ fi_pos' < fi_pos))
          => /\ pc = "finish" /\ pc' = "done"
             /\ status # 0 /\ frame_count >= 1
             /\ Int64At(fi', 1) = frame_count]_vars

C26_Witness ==
  /\ prog = "mjpg_index" /\ pc = "done" /\ status = 0
  /\ NumEntries(fi) = 2 /\ frame_count = 2
  /\ Int64At(fi, 1) = 0 /\ Int64At(fi, 3) > 0

(* ---- both programs on one file ---- *)

\* mjpg_index runs first.
PairInit == Init /\ prog = "mjpg_index"

\* mjpg_index has ended in success; jpgtrace is started on the same file:
\* the locals of its main() have their initial values, the input file and
\* the index file are as mjpg_index left them. read_count, which jpgtrace
\* does not have, and the record of the units read stay as well.
Restart ==
  /\ pc = "done"
  /\ prog = "mjpg_index"
  /\ status # 0
  /\ prog' = "jpgtrace"
  /\ pos' = 0
  /\ feof' = FALSE
  /\ c' = 0
  /\ c2' = 0
  /\ status' = 1
  /\ eoi_read' = 0
  /\ mark_len' = 0
  /\ frame_count' = 0
  /\ out' = <<>>
  /\ diag' = ""
  /\ pc' = "start"
  /\ UNCHANGED <<stream, read_count, fi, fi_pos, unit_start, mark_end, back,
                 units>>

PairNext == Next \/ Restart

PairSpec == PairInit /\ [][PairNext]_vars

\* jpgtrace has ended on the file mjpg_index read: no byte was read behind
\* the end mjpg_index found (its read_count counts the EOF as well), and no
\* read or seek faulted.
SameFileRead ==
  /\ prog = "jpgtrace" /\ pc = "done"
  /\ Len(stream) <= read_count - 1
  /\ diag \notin {"I/O error!", "Seek failed!"}

\* The units read are the same sequence twice: jpgtrace read the markers
\* mjpg_index read, at the same positions.
UnitsTwice ==
  \E n \in 0..Len(units) :
    /\ Len(units) = 2 * n
    /\ \A k \in 1..n : units[n + k] = units[k]

\* C27, as claimed: on a file on which mjpg_index succeeds jpgtrace
\* succeeds with the same units, and the count it prints is the count
\* mjpg_index wrote.
C27_SameScanner ==
  SameFileRead
    => /\ status # 0
       /\ UnitsTwice
       /\ out[Len(out)] = [kind |-> "Number of images", name |-> "",
                           num |-> Int64At(fi, 1)]

\* C27, amended: on a file on which mjpg_index succeeds jpgtrace succeeds
\* with the same units at the same positions and without reading another
\* byte, and it prints the count mjpg_index wrote, unless that count is the
\* maximum of the counter: then jpgtrace prints "(overflow!)".
C27_SameScannerUpToOverflow ==
  /\ (prog = "jpgtrace") => (Int64At(fi, 1) \in 1..LongMax)
  /\ SameFileRead
       => /\ status # 0
          /\ UnitsTwice
          /\ Len(stream) = read_count - 1
          /\ pos = read_count - 1
          /\ frame_count = Int64At(fi, 1)
          /\ out[Len(out)] =
               IF Int64At(fi, 1) < LongMax
                 THEN [kind |-> "Number of images", name |-> "",
                       num |-> Int64At(fi, 1)]
                 ELSE [kind |-> "Number of images", name |-> "(overflow!)",
                       num |-> 0]

C27_Witness ==
  /\ SameFileRead /\ status # 0
  /\ Len(units) = 6 /\ UnitsTwice
  /\ units[4].marker = JPEG_SOI /\ units[5].marker = JPEG_SOI
  /\ Int64At(fi, 1) = 2
  /\ out[Len(out)] = [kind |-> "Number of images", name |-> "", num |-> 2]

====
